---- MODULE Spec2Model ----
(***************************************************************************)
(* Model of helper.py: the model-evaluation metrics (get_sse,              *)
(* get_rsquared) and the regression-assumption checks                      *)
(* (check_model_assumptions, are_assumptions_satisfied_linear and the      *)
(* single checks it runs).                                                 *)
(*                                                                         *)
(* One behaviour is one call of one entry point.  Init is the moment of    *)
(* the call: the entry point and its arguments are chosen.  The values     *)
(* that come from outside helper.py (what model.predict returns, the       *)
(* p-value of normal_ad, an exception raised inside a library call) are    *)
(* drawn when the step that asks for them runs.                            *)
(***************************************************************************)
EXTENDS Integers, Sequences, FiniteSets

\* ---------------------------------------------------------------- bounds

\* rows of a feature matrix, and length of a label vector
NRows == 3
\* feature values are 0..MaxVal
MaxVal == 1
\* label and prediction values are 0..MaxLabel
MaxLabel == 1
\* p-values and thresholds are 0..MaxP (in units of 1/MaxP)
MaxP == 2

\* ------------------------------------------------------------ data model

Rows == 1..NRows

\* A column is a function from row to value; a feature matrix is a sequence
\* of columns (a DataFrame, column by column).
Column == [Rows -> 0..MaxVal]
ColOnes == [r \in Rows |-> 1]
ColZero == [r \in Rows |-> 0]
ColIdx == [r \in Rows |-> IF r = 1 THEN 0 ELSE 1]
Features == {<<c>> : c \in Column} \cup {<<c, d>> : c \in Column, d \in Column}
\* the feature matrices handed to the entry points that take a model
SampleFeatures ==
    {<<ColIdx>>, <<ColOnes>>, <<ColZero>>, <<ColIdx, ColOnes>>, <<ColIdx, ColIdx>>}

Vector == [Rows -> 0..MaxLabel]
\* the labels and predictions of the worked example of get_sse
ExampleLabels == [r \in Rows |-> r]
ExamplePred == [r \in Rows |-> IF r = NRows THEN r + 1 ELSE r]
LabelVectors == Vector \cup {ExampleLabels}
PredVectors == Vector \cup {ExamplePred}

PValues == 0..MaxP

\* Python's None, where the other values of the variable are strings
None == "None"
\* an optional p-value: <<>> is None, <<p>> is the number p
NoPValue == <<>>

\* the classes of the models (none of them derives from another)
OLSWrapper == "RegressionResultsWrapper"
ModelTypes ==
    {OLSWrapper, "LinearRegression", "Ridge", "Lasso", "LogisticRegression",
     "KMeans", "NoneType"}
\* f_pvalue is an attribute of the OLS wrapper only
Models ==
    {[type |-> OLSWrapper, f_pvalue |-> <<p>>] : p \in PValues}
    \cup {[type |-> t, f_pvalue |-> NoPValue] : t \in ModelTypes \ {OLSWrapper}}

IsInstance(m, classes) == m.type \in classes
\* hasattr(model, 'predict'): every class above but NoneType has one
\* (faulty variant: the capability test always succeeds)
HasPredictAlways(m) == m.type \in ModelTypes
HasPredict(m) == m.type # "NoneType"

\* -------------------------------------------------------------- add_constant

IsNonzeroConst(c) == (\A r \in Rows : c[r] = c[1]) /\ c[1] # 0
\* sm.add_constant(X, has_constant=...): prepends a column of ones; under
\* 'skip' (the default) X is returned as it is when it already holds a
\* non-zero constant column.
AddConstant(X, has_constant) ==
    IF has_constant = "skip" /\ \E j \in 1..Len(X) : IsNonzeroConst(X[j])
    THEN X
    ELSE <<ColOnes>> \o X

\* ------------------------------------------------------------------ state

VARIABLES
    fn,              \* the entry point called
    model, features, labels, p_value_thresh,   \* its arguments
    pc,              \* position in the call
    calls,           \* the routines invoked so far, in order
    predicted_on,    \* the matrices handed to model.predict, in order
    y_pred,          \* what model.predict returned to get_sse or get_rsquared
    x_with_const, is_linearity_found, autocorrelation, n_dist_type,
    e_dist_type, has_perfect_collinearity, p_value,   \* locals
    ret              \* [kind |-> "none" | "return" | "raise", value |-> ...]

args == <<fn, model, features, labels, p_value_thresh>>
locals ==
    <<x_with_const, is_linearity_found, autocorrelation, n_dist_type,
      e_dist_type, has_perfect_collinearity, p_value>>
vars == <<args, pc, calls, predicted_on, y_pred, locals, ret>>

\* A local that is not assigned yet holds Unset; once assigned the value v it
\* holds Some(v), read back with Val.
Unset == <<>>
Some(v) == <<v>>
Val(x) == x[1]
NoRet == [kind |-> "none", value |-> "none"]
Return(v) == [kind |-> "return", value |-> v]
Raise(e) == [kind |-> "raise", value |-> e]

EntryPoints ==
    {"get_sse", "get_rsquared", "check_model_assumptions", "linear_assumption",
     "normality_of_errors_assumption", "perfect_collinearity_assumption"}

\* The call: an entry point with its arguments.  Arguments an entry point
\* does not take are left at a fixed value.
Init ==
    /\ fn \in EntryPoints
    /\ IF fn = "perfect_collinearity_assumption"
       THEN /\ features \in Features
            /\ model = [type |-> "NoneType", f_pvalue |-> NoPValue]
            /\ labels = ColZero
            /\ p_value_thresh = 0
       ELSE /\ features \in SampleFeatures
            /\ model \in Models
            /\ IF fn \in {"get_sse", "get_rsquared"}
               THEN labels \in LabelVectors /\ p_value_thresh = 0
               ELSE labels = ColZero /\ p_value_thresh \in PValues
    /\ pc = "call"
    /\ calls = <<>>
    /\ predicted_on = <<>>
    /\ y_pred = <<>>
    /\ x_with_const = <<>>
    /\ is_linearity_found = Unset
    /\ autocorrelation = Unset
    /\ n_dist_type = Unset
    /\ e_dist_type = Unset
    /\ has_perfect_collinearity = Unset
    /\ p_value = NoPValue
    /\ ret = NoRet

\* ------------------------------------------------------------ get_sse

RECURSIVE SumDiff(_, _, _)
SumDiff(l, y, n) == IF n = 0 THEN 0 ELSE SumDiff(l, y, n - 1) + (l[n] - y[n])
\* (faulty variant: np.sum(labels - y_pred) ** 2, the sum squared)
SquareOfSum(l, y, n) == SumDiff(l, y, n) * SumDiff(l, y, n)

RECURSIVE SumSq(_, _, _)
\* np.sum((labels - y_pred) ** 2), over the rows 1..n
SumSq(l, y, n) ==
    IF n = 0 THEN 0 ELSE SumSq(l, y, n - 1) + (l[n] - y[n]) * (l[n] - y[n])

\* the matrix get_sse and get_rsquared hand to model.predict
MetricFeatures(m, X) ==
    IF IsInstance(m, {OLSWrapper}) THEN AddConstant(X, "add") ELSE X

GetSSE ==
    /\ fn = "get_sse" /\ pc = "call"
    /\ pc' = "done"
    /\ IF HasPredict(model)
       THEN /\ predicted_on' = <<MetricFeatures(model, features)>>
            /\ \/ \E y \in PredVectors :
                    /\ y_pred' = y
                    /\ ret' = Return(SumSq(labels, y, NRows))
               \/ /\ y_pred' = y_pred
                  /\ ret' = Raise("error raised by model.predict")
       ELSE /\ ret' = Raise("Unsupported model type for SSE calculation.")
            /\ UNCHANGED <<predicted_on, y_pred>>
    /\ UNCHANGED <<args, calls, locals>>

\* --------------------------------------------------------- get_rsquared

RECURSIVE Sum(_, _)
Sum(l, n) == IF n = 0 THEN 0 ELSE Sum(l, n - 1) + l[n]

\* r2_score(labels, y_pred) = 1 - ss_res / ss_tot, kept as the exact pair
\* (ss_res, ss_tot); ss_tot is scaled by the row count to stay an integer.
R2Score(l, y) ==
    [ss_res |-> NRows * SumSq(l, y, NRows),
     ss_tot |-> NRows * SumSq(l, ColZero, NRows) - Sum(l, NRows) * Sum(l, NRows)]

\* (the source spells the message with a superscript two: R2 here)
GetRsquared ==
    /\ fn = "get_rsquared" /\ pc = "call"
    /\ pc' = "done"
    /\ IF HasPredict(model)
       THEN /\ predicted_on' = <<MetricFeatures(model, features)>>
            /\ \/ \E y \in PredVectors :
                    /\ y_pred' = y
                    /\ ret' = Return(R2Score(labels, y))
               \/ /\ y_pred' = y_pred
                  /\ ret' = Raise("error raised by model.predict")
       ELSE /\ ret' = Raise("Unsupported model type for R2 calculation.")
            /\ UNCHANGED <<predicted_on, y_pred>>
    /\ UNCHANGED <<args, calls, locals>>

\* ------------------------------------------------ the single assumption checks

\* (faulty variant: p_value <= p_value_thresh)
LinearAssumptionAtMost(m, thresh) ==
    IF IsInstance(m, {OLSWrapper})
    THEN <<m.f_pvalue[1] <= thresh, m.f_pvalue>>
    ELSE <<TRUE, NoPValue>>

\* linear_assumption, from the isinstance test on: (is_linearity_found, p_value)
LinearAssumption(m, thresh) ==
    IF IsInstance(m, {OLSWrapper})
    THEN <<m.f_pvalue[1] < thresh, m.f_pvalue>>
    ELSE <<TRUE, NoPValue>>

\* (faulty variant: p_value > p_value_thresh)
NormalityOfErrorsStrict(p, thresh) ==
    <<IF p > thresh THEN "normal" ELSE "non-normal", <<p>>>>

\* normality_of_errors_assumption, from the p-value p of normal_ad on:
\* (dist_type, p_value)
NormalityOfErrors(p, thresh) ==
    <<IF p >= thresh THEN "normal" ELSE "non-normal", <<p>>>>

\* Durbin-Watson statistic, in tenths, and the band without autocorrelation
DWValues == {10, 20, 30}
DWLow == 15
DWHigh == 25
\* independence_of_errors_assumption, from the statistic dw on:
\* (autocorrelation, dw_value)
IndependenceOfErrors(dw) ==
    <<IF dw < DWLow THEN "positive" ELSE IF dw > DWHigh THEN "negative" ELSE None,
      dw>>

\* equal_variance_assumption, from the p-value p of its test on:
\* (dist_type, p_value)
EqualVariance(p, thresh) ==
    <<IF p >= thresh THEN "equal" ELSE "unequal", <<p>>>>

\* ------------------------------------------- perfect_collinearity_assumption

RECURSIVE SumProd(_, _, _)
SumProd(x, y, n) == IF n = 0 THEN 0 ELSE SumProd(x, y, n - 1) + x[n] * y[n]

\* n * (sum of products) - (product of sums): n^2 times the covariance
CoMoment(x, y) == NRows * SumProd(x, y, NRows) - Sum(x, NRows) * Sum(y, NRows)

\* One entry of features.corr(), the Pearson correlation
\* sxy / sqrt(sxx * syy), kept exact as its sign and its square; it is NaN
\* when one of the columns has no variance.
Corr(x, y) ==
    [nan |-> CoMoment(x, x) * CoMoment(y, y) = 0,
     sxy |-> CoMoment(x, y),
     sxx_syy |-> CoMoment(x, x) * CoMoment(y, y)]
NaN == [nan |-> TRUE, sxy |-> 0, sxx_syy |-> 0]

CorrelationMatrix(X) ==
    [i \in 1..Len(X) |-> [j \in 1..Len(X) |-> Corr(X[i], X[j])]]
\* np.fill_diagonal(matrix, np.nan)
FillDiagonal(M) ==
    [i \in DOMAIN M |-> [j \in DOMAIN M |-> IF i = j THEN NaN ELSE M[i][j]]]

\* c > 0.999 and c < -0.999: false for NaN; 0.999^2 = 998001 / 1000000
GreaterThan999(c) ==
    ~c.nan /\ c.sxy > 0 /\ 1000000 * c.sxy * c.sxy > 998001 * c.sxx_syy
LessThanMinus999(c) ==
    ~c.nan /\ c.sxy < 0 /\ 1000000 * c.sxy * c.sxy > 998001 * c.sxx_syy

PerfectCollinearityAssumption(X) ==
    LET correlation_matrix == FillDiagonal(CorrelationMatrix(X))
        pos_perfect_collinearity ==
            \E i, j \in DOMAIN correlation_matrix :
                GreaterThan999(correlation_matrix[i][j])
        neg_perfect_collinearity ==
            \E i, j \in DOMAIN correlation_matrix :
                LessThanMinus999(correlation_matrix[i][j])
    IN  pos_perfect_collinearity \/ neg_perfect_collinearity

\* ----------------------------------------- the single checks as entry points

LinearAssumptionCall ==
    /\ fn = "linear_assumption" /\ pc = "call"
    /\ pc' = "done"
    /\ predicted_on' = IF HasPredict(model) THEN <<features>> ELSE predicted_on
    /\ \/ /\ HasPredict(model)
          /\ ret' = Return(LinearAssumption(model, p_value_thresh))
       \/ ret' = Raise("error raised by model.predict")
    /\ UNCHANGED <<args, calls, y_pred, locals>>

NormalityCall ==
    /\ fn = "normality_of_errors_assumption" /\ pc = "call"
    /\ pc' = "done"
    /\ predicted_on' = IF HasPredict(model) THEN <<features>> ELSE predicted_on
    /\ \/ /\ HasPredict(model)
          /\ \E p \in PValues : ret' = Return(NormalityOfErrors(p, p_value_thresh))
       \/ ret' = Raise("error raised by model.predict")
    /\ UNCHANGED <<args, calls, y_pred, locals>>

PerfectCollinearityCall ==
    /\ fn = "perfect_collinearity_assumption" /\ pc = "call"
    /\ pc' = "done"
    /\ ret' = Return(PerfectCollinearityAssumption(features))
    /\ UNCHANGED <<args, calls, predicted_on, y_pred, locals>>

\* ------------------------------------------------ check_model_assumptions

LinearPath == "are_assumptions_satisfied_linear"
RidgeLassoPath == "are_assumptions_satisfied_ridge_lasso"
LogisticPath == "are_assumptions_satisfied_logistic"
Unsupported == "Model type not supported for assumption checks."

\* (faulty variant: the logistic routine is the final else)
RouteElseLogistic(m) ==
    IF IsInstance(m, {"LinearRegression", OLSWrapper}) THEN LinearPath
    ELSE IF IsInstance(m, {"Ridge", "Lasso"}) THEN RidgeLassoPath
    ELSE LogisticPath

\* (faulty variant: the second test names Ridge alone)
RouteRidgeAlone(m) ==
    IF IsInstance(m, {"LinearRegression", OLSWrapper}) THEN LinearPath
    ELSE IF IsInstance(m, {"Ridge"}) THEN RidgeLassoPath
    ELSE IF IsInstance(m, {"LogisticRegression"}) THEN LogisticPath
    ELSE Unsupported

\* the isinstance chain: the routine the model is handed to, or the message
Route(m) ==
    IF IsInstance(m, {"LinearRegression", OLSWrapper}) THEN LinearPath
    ELSE IF IsInstance(m, {"Ridge", "Lasso"}) THEN RidgeLassoPath
    ELSE IF IsInstance(m, {"LogisticRegression"}) THEN LogisticPath
    ELSE Unsupported

CheckModelAssumptions ==
    /\ fn = "check_model_assumptions" /\ pc = "call"
    /\ IF Route(model) = Unsupported
       THEN /\ pc' = "done"
            /\ ret' = Return(Unsupported)
            /\ calls' = calls
       ELSE /\ pc' = Route(model)
            /\ ret' = ret
            /\ calls' = Append(calls, Route(model))
    /\ UNCHANGED <<args, predicted_on, y_pred, locals>>

\* The ridge/lasso and the logistic routines: each ends with True, with the
\* message of an assumption that is not satisfied, or with an error.
OtherPath ==
    /\ pc \in {RidgeLassoPath, LogisticPath}
    /\ pc' = "done"
    /\ \/ ret' = Return("True")
       \/ ret' = Return("An assumption is not satisfied.")
       \/ ret' = Raise("error raised by a check")
    /\ UNCHANGED <<args, calls, predicted_on, y_pred, locals>>

\* ---------------------------------------- are_assumptions_satisfied_linear

\* x_with_const = sm.add_constant(features)
AddConstantStep ==
    /\ pc = LinearPath
    /\ x_with_const' = AddConstant(features, "skip")
    /\ pc' = "linear_assumption"
    /\ UNCHANGED <<args, calls, predicted_on, y_pred, is_linearity_found,
                   autocorrelation, n_dist_type, e_dist_type,
                   has_perfect_collinearity, p_value, ret>>

\* A check that raises ends the routine with the error.
CheckRaises(name) ==
    /\ pc' = "done"
    /\ ret' = Raise("error raised by " \o name)
    /\ UNCHANGED <<is_linearity_found, autocorrelation, n_dist_type,
                   e_dist_type, has_perfect_collinearity, p_value>>

\* (faulty variant: the routine returns as soon as the linearity check has failed)
LinearAssumptionStepShortCircuit ==
    /\ pc = "linear_assumption"
    /\ calls' = Append(calls, "linear_assumption")
    /\ predicted_on' = Append(predicted_on, x_with_const)
    /\ is_linearity_found' = Some(LinearAssumption(model, p_value_thresh)[1])
    /\ p_value' = LinearAssumption(model, p_value_thresh)[2]
    /\ IF LinearAssumption(model, p_value_thresh)[1]
       THEN pc' = "independence_of_errors_assumption" /\ ret' = ret
       ELSE pc' = "done" /\ ret' = Return("Linearity assumption is not satisfied.")
    /\ UNCHANGED <<args, y_pred, x_with_const, autocorrelation, n_dist_type,
                   e_dist_type, has_perfect_collinearity>>

LinearAssumptionStep ==
    /\ pc = "linear_assumption"
    /\ calls' = Append(calls, "linear_assumption")
    /\ predicted_on' = Append(predicted_on, x_with_const)
    /\ \/ /\ is_linearity_found' = Some(LinearAssumption(model, p_value_thresh)[1])
          /\ p_value' = LinearAssumption(model, p_value_thresh)[2]
          /\ pc' = "independence_of_errors_assumption"
          /\ UNCHANGED <<autocorrelation, n_dist_type, e_dist_type,
                         has_perfect_collinearity, ret>>
       \/ CheckRaises("linear_assumption")
    /\ UNCHANGED <<args, y_pred, x_with_const>>

\* independence_of_errors_assumption and equal_variance_assumption are taken
\* to predict on the matrix they are handed, as the two checks above do.
IndependenceStep ==
    /\ pc = "independence_of_errors_assumption"
    /\ calls' = Append(calls, "independence_of_errors_assumption")
    /\ predicted_on' = Append(predicted_on, x_with_const)
    /\ \/ /\ \E dw \in DWValues :
                autocorrelation' = Some(IndependenceOfErrors(dw)[1])
          /\ pc' = "normality_of_errors_assumption"
          /\ UNCHANGED <<is_linearity_found, n_dist_type, e_dist_type,
                         has_perfect_collinearity, p_value, ret>>
       \/ CheckRaises("independence_of_errors_assumption")
    /\ UNCHANGED <<args, y_pred, x_with_const>>

NormalityStep ==
    /\ pc = "normality_of_errors_assumption"
    /\ calls' = Append(calls, "normality_of_errors_assumption")
    /\ predicted_on' = Append(predicted_on, x_with_const)
    /\ \/ /\ \E p \in PValues :
                /\ n_dist_type' = Some(NormalityOfErrors(p, p_value_thresh)[1])
                /\ p_value' = NormalityOfErrors(p, p_value_thresh)[2]
          /\ pc' = "equal_variance_assumption"
          /\ UNCHANGED <<is_linearity_found, autocorrelation, e_dist_type,
                         has_perfect_collinearity, ret>>
       \/ CheckRaises("normality_of_errors_assumption")
    /\ UNCHANGED <<args, y_pred, x_with_const>>

EqualVarianceStep ==
    /\ pc = "equal_variance_assumption"
    /\ calls' = Append(calls, "equal_variance_assumption")
    /\ predicted_on' = Append(predicted_on, x_with_const)
    /\ \/ /\ \E p \in PValues :
                /\ e_dist_type' = Some(EqualVariance(p, p_value_thresh)[1])
                /\ p_value' = EqualVariance(p, p_value_thresh)[2]
          /\ pc' = "perfect_collinearity_assumption"
          /\ UNCHANGED <<is_linearity_found, autocorrelation, n_dist_type,
                         has_perfect_collinearity, ret>>
       \/ CheckRaises("equal_variance_assumption")
    /\ UNCHANGED <<args, y_pred, x_with_const>>

CollinearityStep ==
    /\ pc = "perfect_collinearity_assumption"
    /\ calls' = Append(calls, "perfect_collinearity_assumption")
    /\ \/ /\ has_perfect_collinearity' =
                Some(PerfectCollinearityAssumption(features))
          /\ pc' = "decide"
          /\ UNCHANGED <<is_linearity_found, autocorrelation, n_dist_type,
                         e_dist_type, p_value, ret>>
       \/ CheckRaises("perfect_collinearity_assumption")
    /\ UNCHANGED <<args, predicted_on, y_pred, x_with_const>>

\* (faulty variant: equal variance is looked at before normality)
VerdictVarianceBeforeNormality(lin, auto, ndist, edist, coll) ==
    IF ~lin THEN "Linearity assumption is not satisfied."
    ELSE IF auto # None
    THEN "Independence of errors (no autocorrelation) assumption is not satisfied."
    ELSE IF edist # "equal"
    THEN "Equal variance (homoscedasticity) assumption is not satisfied. Distribution type: "
         \o edist
    ELSE IF ndist # "normal"
    THEN "Normality of errors assumption is not satisfied. Distribution type: "
         \o ndist
    ELSE IF coll THEN "Perfect collinearity assumption is not satisfied."
    ELSE "True"

\* the result of the if/elif chain over the five outcomes
Verdict(lin, auto, ndist, edist, coll) ==
    IF ~lin THEN "Linearity assumption is not satisfied."
    ELSE IF auto # None
    THEN "Independence of errors (no autocorrelation) assumption is not satisfied."
    ELSE IF ndist # "normal"
    THEN "Normality of errors assumption is not satisfied. Distribution type: "
         \o ndist
    ELSE IF edist # "equal"
    THEN "Equal variance (homoscedasticity) assumption is not satisfied. Distribution type: "
         \o edist
    ELSE IF coll THEN "Perfect collinearity assumption is not satisfied."
    ELSE "True"

Decide ==
    /\ pc = "decide"
    /\ pc' = "done"
    /\ ret' = Return(Verdict(Val(is_linearity_found), Val(autocorrelation),
                             Val(n_dist_type), Val(e_dist_type),
                             Val(has_perfect_collinearity)))
    /\ UNCHANGED <<args, calls, predicted_on, y_pred, locals>>

Next ==
    \/ GetSSE
    \/ GetRsquared
    \/ LinearAssumptionCall
    \/ NormalityCall
    \/ PerfectCollinearityCall
    \/ CheckModelAssumptions
    \/ OtherPath
    \/ AddConstantStep
    \/ LinearAssumptionStep
    \/ IndependenceStep
    \/ NormalityStep
    \/ EqualVarianceStep
    \/ CollinearityStep
    \/ Decide

Spec == Init /\ [][Next]_vars

\* ------------------------------------------------------------- properties

Returned == pc = "done" /\ ret.kind = "return"
\* the call went from check_model_assumptions into the linear routine
InLinearPath ==
    fn = "check_model_assumptions" /\ Len(calls) >= 1 /\ calls[1] = LinearPath
FiveChecks ==
    <<"linear_assumption", "independence_of_errors_assumption",
      "normality_of_errors_assumption", "equal_variance_assumption",
      "perfect_collinearity_assumption">>
LinearityMsg == "Linearity assumption is not satisfied."
IndependenceMsg ==
    "Independence of errors (no autocorrelation) assumption is not satisfied."
NormalityMsg ==
    "Normality of errors assumption is not satisfied. Distribution type: "
EqualVarianceMsg ==
    "Equal variance (homoscedasticity) assumption is not satisfied. Distribution type: "
CollinearityMsg == "Perfect collinearity assumption is not satisfied."

\* the checks, by their place in the fixed order, that did not pass
FailedChecks ==
    {i \in 1..5 :
        \/ i = 1 /\ ~Val(is_linearity_found)
        \/ i = 2 /\ Val(autocorrelation) # None
        \/ i = 3 /\ Val(n_dist_type) # "normal"
        \/ i = 4 /\ Val(e_dist_type) # "equal"
        \/ i = 5 /\ Val(has_perfect_collinearity)}
FailureMessage(i) ==
    CASE i = 1 -> LinearityMsg
      [] i = 2 -> IndependenceMsg
      [] i = 3 -> NormalityMsg \o Val(n_dist_type)
      [] i = 4 -> EqualVarianceMsg \o Val(e_dist_type)
      [] i = 5 -> CollinearityMsg

\* C1: whatever the outcomes of the five checks, the linear routine returns
\* True exactly when none of them failed, and otherwise the message of the
\* failing check that comes first in the order linearity, independence,
\* normality, equal variance, collinearity.
C1_FirstFailureReported ==
    (InLinearPath /\ Returned) =>
        /\ (ret.value = "True") <=> (FailedChecks = {})
        /\ FailedChecks # {} =>
              \E i \in FailedChecks :
                  /\ \A j \in FailedChecks : i <= j
                  /\ ret.value = FailureMessage(i)
\* linearity passed, normality and collinearity both failed: normality is told
C1_Witness ==
    /\ InLinearPath /\ Returned
    /\ FailedChecks = {3, 5}
    /\ ret.value = NormalityMsg \o "non-normal"

\* C2: the dispatcher hands an OLS wrapper or a LinearRegression to the
\* linear routine, a Ridge or a Lasso to the ridge/lasso routine, a
\* LogisticRegression to the logistic routine; for any other model it
\* returns the "not supported" string, raises nothing and invokes no routine.
C2_DispatchByModelType ==
    (fn = "check_model_assumptions" /\ pc # "call") =>
        /\ model.type \in {OLSWrapper, "LinearRegression"} =>
              Len(calls) >= 1 /\ calls[1] = LinearPath
        /\ model.type \in {"Ridge", "Lasso"} =>
              Len(calls) >= 1 /\ calls[1] = RidgeLassoPath
        /\ model.type = "LogisticRegression" =>
              Len(calls) >= 1 /\ calls[1] = LogisticPath
        /\ model.type \in {"KMeans", "NoneType"} =>
              /\ calls = <<>>
              /\ pc = "done"
              /\ ret = Return("Model type not supported for assumption checks.")
C2_Witness ==
    /\ fn = "check_model_assumptions" /\ model.type = "KMeans"
    /\ Returned /\ calls = <<>>
    /\ ret.value = "Model type not supported for assumption checks."

\* the four kinds of model of the routing property; a plain OLS model is a
\* LinearRegression or an OLS wrapper
Kind(t) ==
    CASE t \in {OLSWrapper, "LinearRegression"} -> "ols"
      [] t = "Ridge" -> "ridge"
      [] t = "Lasso" -> "lasso"
      [] t = "LogisticRegression" -> "logistic"
      [] OTHER -> "other"
FourKinds == {t \in ModelTypes : Kind(t) # "other"}
ModelOf(t) == CHOOSE m \in Models : m.type = t

\* C3 (as claimed): the routine a Ridge, Lasso, plain-OLS or Logistic model is
\* handed to is the routine of no model of another of these four kinds.
C3_FourDistinctPaths ==
    (fn = "check_model_assumptions" /\ pc # "call" /\ model.type \in FourKinds) =>
        \A t \in FourKinds :
            Kind(t) # Kind(model.type) => Route(ModelOf(t)) # calls[1]
\* C3 (amended): Ridge and Lasso share one routine; apart from that pair, no
\* two of the four kinds are handed to the same routine, so the four kinds
\* reach three routines: linear, ridge/lasso, logistic.
C3_ThreeDistinctPaths ==
    (fn = "check_model_assumptions" /\ pc # "call" /\ model.type \in FourKinds) =>
        /\ calls[1] \in {LinearPath, RidgeLassoPath, LogisticPath}
        /\ \A t \in FourKinds :
              Kind(t) # Kind(model.type) =>
                  ((Route(ModelOf(t)) = calls[1])
                      <=> ({Kind(t), Kind(model.type)} = {"ridge", "lasso"}))
C3_Witness ==
    /\ fn = "check_model_assumptions" /\ model.type = "Ridge"
    /\ Len(calls) = 1 /\ calls[1] = RidgeLassoPath
    /\ Route(ModelOf("Lasso")) = calls[1]

\* C4: get_sse and get_rsquared end in their "Unsupported model type" error
\* exactly when the model has no predict; then nothing was predicted and
\* nothing is returned; with a predict, the prediction is asked for once and,
\* when predict gives one, a metric value is returned.
C4_UnsupportedIffNoPredict ==
    (fn \in {"get_sse", "get_rsquared"} /\ pc = "done") =>
        /\ (/\ ret.kind = "raise"
            /\ ret.value = (IF fn = "get_sse"
                            THEN "Unsupported model type for SSE calculation."
                            ELSE "Unsupported model type for R2 calculation."))
           <=> (model.type = "NoneType")
        /\ model.type = "NoneType" =>
              predicted_on = <<>> /\ y_pred = <<>> /\ ret.kind = "raise"
        /\ model.type # "NoneType" =>
              /\ Len(predicted_on) = 1
              /\ (y_pred # <<>>) <=> (ret.kind = "return")
C4_Witness ==
    /\ fn = "get_rsquared" /\ pc = "done" /\ model.type = "NoneType"
    /\ ret = Raise("Unsupported model type for R2 calculation.")
    /\ predicted_on = <<>>

Square(d) == d * d
RECURSIVE SetSum(_, _, _)
\* the sum over the rows in S of the squared difference of the two vectors
SetSum(S, l, y) ==
    IF S = {} THEN 0
    ELSE LET r == CHOOSE q \in S : TRUE
         IN  Square(l[r] - y[r]) + SetSum(S \ {r}, l, y)

\* C5: get_sse returns the sum over all rows of (label - prediction)^2; it
\* is 1 for labels 1,2,3 and predictions 1,2,4 and it is 0 exactly when
\* every prediction equals its label.
C5_SseIsSumOfSquares ==
    (fn = "get_sse" /\ Returned) =>
        /\ ret.value = SetSum(Rows, labels, y_pred)
        /\ (labels = ExampleLabels /\ y_pred = ExamplePred) => ret.value = 1
        /\ (ret.value = 0) <=> (\A r \in Rows : y_pred[r] = labels[r])
C5_Witness ==
    /\ fn = "get_sse" /\ Returned
    /\ labels = ExampleLabels /\ y_pred = ExamplePred
    /\ ret.value = 1

\* |correlation of x and y| > 0.999, false when the correlation is undefined
AbsCorrAbove999(x, y) ==
    /\ CoMoment(x, x) > 0 /\ CoMoment(y, y) > 0
    /\ 1000000 * Square(CoMoment(x, y)) > 998001 * CoMoment(x, x) * CoMoment(y, y)

\* C6 (as claimed): perfect_collinearity_assumption returns true exactly when
\* two distinct columns correlate above 0.999 in absolute value; one column
\* alone gives false, and two exactly duplicated columns give true.
C6_CollinearityOfDistinctColumns ==
    (fn = "perfect_collinearity_assumption" /\ Returned) =>
        /\ ret.value <=>
              \E i, j \in 1..Len(features) :
                  i # j /\ AbsCorrAbove999(features[i], features[j])
        /\ Len(features) = 1 => ~ret.value
        /\ (\E i, j \in 1..Len(features) : i # j /\ features[i] = features[j])
              => ret.value

\* C7: in linear_assumption an OLS wrapper fails the linearity check exactly
\* when its F-test p-value is at or above the threshold, and a model that is
\* no OLS wrapper always passes, with no p-value reported.
C7_LinearityByFPValue ==
    /\ (fn = "linear_assumption" /\ Returned) =>
          IF model.type = OLSWrapper
          THEN /\ ~ret.value[1] <=> (model.f_pvalue[1] >= p_value_thresh)
               /\ ret.value[2] = model.f_pvalue
          ELSE ret.value = <<TRUE, NoPValue>>
    /\ (InLinearPath /\ is_linearity_found # Unset) =>
          IF model.type = OLSWrapper
          THEN ~Val(is_linearity_found) <=> (model.f_pvalue[1] >= p_value_thresh)
          ELSE /\ Val(is_linearity_found)
               /\ pc = "independence_of_errors_assumption" => p_value = NoPValue
\* the p-value equals the threshold: the check fails
C7_Witness ==
    /\ fn = "linear_assumption" /\ Returned /\ model.type = OLSWrapper
    /\ model.f_pvalue[1] = p_value_thresh
    /\ ret.value[1] = FALSE

\* C8: the residuals are classified 'normal' exactly when the p-value of the
\* normality test is at or above the threshold, 'non-normal' otherwise; when
\* linearity and independence pass, the linear routine returns the normality
\* message exactly when the classification is 'non-normal'.
C8_NormalityByPValue ==
    /\ (fn = "normality_of_errors_assumption" /\ Returned) =>
          /\ ret.value[1] \in {"normal", "non-normal"}
          /\ (ret.value[1] = "normal") <=> (ret.value[2][1] >= p_value_thresh)
    /\ (InLinearPath /\ pc = "equal_variance_assumption") =>
          /\ Val(n_dist_type) \in {"normal", "non-normal"}
          /\ (Val(n_dist_type) = "normal") <=> (p_value[1] >= p_value_thresh)
    /\ (/\ InLinearPath /\ Returned
        /\ Val(is_linearity_found) /\ Val(autocorrelation) = None) =>
          ((ret.value = NormalityMsg \o "non-normal")
              <=> (Val(n_dist_type) = "non-normal"))
\* the p-value equals the threshold: 'normal'
C8_Witness ==
    /\ fn = "normality_of_errors_assumption" /\ Returned
    /\ ret.value[2][1] = p_value_thresh
    /\ ret.value[1] = "normal"

\* C9: the linear routine runs its five checks in the order linearity,
\* independence, normality, equal variance, collinearity, each once, before
\* it chooses a result: a value is returned only after all five, also when
\* an early one failed, and an error raised by a check ends the call with
\* that error and no result.
C9_AllFiveBeforeResult ==
    InLinearPath =>
        /\ Len(calls) <= 6
        /\ \A i \in 2..Len(calls) : calls[i] = FiveChecks[i - 1]
        /\ ret.kind = "return" =>
              /\ calls = <<LinearPath>> \o FiveChecks
              /\ is_linearity_found # Unset /\ autocorrelation # Unset
              /\ n_dist_type # Unset /\ e_dist_type # Unset
              /\ has_perfect_collinearity # Unset
        /\ ret.kind = "raise" => pc = "done"
        /\ pc = "done" => ~ENABLED Next
\* linearity failed, the four later checks ran all the same
C9_Witness ==
    /\ InLinearPath /\ Returned
    /\ ~Val(is_linearity_found)
    /\ calls = <<LinearPath>> \o FiveChecks
    /\ ret.value = LinearityMsg

\* C10 (as claimed): get_sse, get_rsquared and the linear routine predict on
\* the features with an intercept column added when the model is an OLS
\* wrapper, and on the features as passed, nothing added, when it is not.
C10_InterceptIffOLSWrapper ==
    (fn \in {"get_sse", "get_rsquared", "check_model_assumptions"}) =>
        \A i \in 1..Len(predicted_on) :
            predicted_on[i] =
                (IF model.type = OLSWrapper
                 THEN <<ColOnes>> \o features
                 ELSE features)
====
